---- MODULE Spec2Model ----
(***************************************************************************)
(* Model of happo's server-side capture pipeline (runVisualDiffs.js): the  *)
(* promise chain of runVisualDiffs, the viewport/example loops of          *)
(* performDiffs and renderExamples, and the snapshot store compareAndSave. *)
(*                                                                         *)
(* The program is single-threaded and driven by asynchronous completions.  *)
(* A state holds the asynchronous operations that are outstanding          *)
(* (pending), the persistence tasks (tasks) and the heap and disk they     *)
(* work on.  One action is the completion of one outstanding operation     *)
(* together with the whole synchronous continuation the code attaches to   *)
(* it.  A rejection nobody handles leaves no continuation: the chain it    *)
(* belonged to never advances again.                                       *)
(***************************************************************************)
EXTENDS Integers, Sequences, FiniteSets, TLC

\* ------------------------------------------------------------------ bounds
\* Longest list of examples the page enumerates.
MaxExamples == 2
\* Number of compareAndSave calls issued to the store on its own (StoreSpec).
MaxCalls == 2
\* Largest height of an image sent to the diff worker (WorkerSpec).
MaxRows == 3

\* ------------------------------------------------------------------ inputs
Descriptions == {"a", "b"}

\* Object.keys(config.viewports), in configuration order.
ConfigViewports == <<"large", "small">>

\* config.viewports: width and height of each configured viewport
ViewportSizes ==
  [name \in {ConfigViewports[n] : n \in 1..Len(ConfigViewports)} |->
     IF name = ConfigViewports[1] THEN [width |-> 2, height |-> 3]
     ELSE [width |-> 1, height |-> 2]]

ViewportSet == {ConfigViewports[i] : i \in 1..Len(ConfigViewports)}

\* example.options.viewports: {} when the option is undefined, {list} otherwise.
\* The first example may name two viewports, or one viewport twice.
Examples ==
  {[description |-> "a", options |-> [viewports |-> v]] :
     v \in {{}, {<<"small", "large">>}, {<<"large", "large">>}}}
  \cup
  {[description |-> "b", options |-> [viewports |-> v]] :
     v \in {{}, {<<"small">>}, {<<>>}}}

RECURSIVE SeqsUpTo(_, _)
SeqsUpTo(S, n) ==
  IF n = 0 THEN {<<>>}
  ELSE LET shorter == SeqsUpTo(S, n - 1)
       IN  shorter \cup {Append(s, x) : s \in shorter, x \in S}

\* What window.happo.getAllExamples() may return: descriptions are unique.
Enumerations ==
  {e \in SeqsUpTo(Examples, MaxExamples) :
     \A i, j \in 1..Len(e) : i # j => e[i].description # e[j].description}

\* Raster images {height, width, data}: data holds 4 bytes per pixel.
Zeros(n) == [i \in 1..n |-> 0]

ImgBase == [height |-> 1, width |-> 1, data |-> <<0, 0, 0, 0>>]
ImgFirstByte == [height |-> 1, width |-> 1, data |-> <<1, 0, 0, 0>>]
ImgLastByte == [height |-> 1, width |-> 1, data |-> <<0, 0, 0, 1>>]
ImgTall == [height |-> 2, width |-> 1, data |-> Zeros(8)]
ImgWide == [height |-> 1, width |-> 2, data |-> Zeros(8)]

Images == {ImgBase, ImgFirstByte, ImgLastByte, ImgTall, ImgWide}

\* The cropped screenshots a run may capture.
Screenshots == {ImgBase, ImgTall}

\* pathToSnapshot keys: one current.png and one previous.png per key.
Keys == Descriptions \X ViewportSet

\* ------------------------------------------------------------ file helpers
\* A directory of files is a function whose domain is the existing paths.
EmptyMap == [x \in {} |-> <<>>]

Remove(f, k) == [x \in (DOMAIN f) \ {k} |-> f[x]]

Put(f, k, v) == [x \in (DOMAIN f) \cup {k} |-> IF x = k THEN v ELSE f[x]]

existsSync(f, k) == k \in DOMAIN f

Max(a, b) == IF a >= b THEN a ELSE b

\* ----------------------------------------------------------- areImagesEqual
\* for (i = 0; i < a.data.length; i++) if (a.data[i] !== b.data[i]) return false
RECURSIVE DataEqualFrom(_, _, _)
DataEqualFrom(a, b, i) ==
  IF i > Len(a.data) THEN TRUE
  ELSE IF i > Len(b.data) \/ a.data[i] # b.data[i] THEN FALSE
  ELSE DataEqualFrom(a, b, i + 1)

areImagesEqualIgnoringWidth(a, b) ==
  IF a.height # b.height THEN FALSE
  ELSE DataEqualFrom(a, b, 1)

areImagesEqual(a, b) ==
  IF a.height # b.height THEN FALSE
  ELSE IF a.width # b.width THEN FALSE
  ELSE DataEqualFrom(a, b, 1)

\* ------------------------------------------------------------------- state
VARIABLES
  pending,                \* outstanding asynchronous operations of the run
  driver,                 \* "none" | "open" | "closed"
  runState,               \* runVisualDiffs' promise: "pending" | "resolved" | "rejected"
  runError,               \* the error it was rejected with
  summaryFile,            \* <<>> or <<the serialized run result>>
  examplesByViewport,     \* viewport name -> remaining examples (descriptions)
  viewportNames,          \* performDiffs: viewport names still to process
  viewportName,           \* the viewport being processed
  combinedResult,         \* performDiffs: the run-wide RunResult
  runResult,              \* renderExamples: the current viewport's RunResult
  compareAndSavePromises, \* renderExamples: indices into tasks
  tasks,                  \* every compareAndSave call made so far
  current,                \* key -> image of current.png, for the files that exist
  previous,               \* key -> image of previous.png, for the files that exist
  failures,               \* history: the failures that have occurred
  merged,                 \* history: the viewports merged into combinedResult
  page,                   \* history: what the test page reported to the run
  issued                  \* history: the resize and render commands issued

chainVars == <<pending, driver, runState, runError, summaryFile>>
loopVars == <<examplesByViewport, viewportNames, viewportName, combinedResult,
              runResult, compareAndSavePromises, merged>>
storeVars == <<tasks, current, previous>>
historyVars == <<page, issued>>
runVars == <<chainVars, loopVars, storeVars, failures, historyVars>>

\* The diff worker (ComputeAndInjectDiffsWorker).
VARIABLES
  wpc,                    \* the worker's position in its message handler
  request,                \* the message data: previousData and currentData
  previousImageData,      \* the previous image as an array of pixel rows
  currentImageData,       \* the current image as an array of pixel rows
  hashedPreviousData,     \* the fingerprints of the previous image's rows
  hashedCurrentData,      \* the fingerprints of the current image's rows
  posted                  \* the messages the worker has posted, in order

workerVars == <<wpc, request, previousImageData, currentImageData,
                hashedPreviousData, hashedCurrentData, posted>>
vars == <<runVars, workerVars>>

NoImage == [height |-> 0, width |-> 0, data |-> <<>>]

\* The worker has been started and waits for its message.
WorkerListening ==
  /\ wpc = "listening"
  /\ request = [previousData |-> NoImage, currentData |-> NoImage]
  /\ previousImageData = <<>>
  /\ currentImageData = <<>>
  /\ hashedPreviousData = <<>>
  /\ hashedCurrentData = <<>>
  /\ posted = <<>>

\* page.errors = <<e>> once window.happo.errors has been read as e,
\* page.examples = <<l>> once getAllExamples() has returned l.
NothingReported == [errors |-> <<>>, examples |-> <<>>]

Cmd(op, arg) == [op |-> op, arg |-> arg]

\* The operations that are commands to the remote browser session.
RemoteOps ==
  {"get", "executeScript", "setSize", "executeAsyncScript", "takeScreenshot"}

NoError == <<"none", "">>

\* ---------------------------------------------------------------- RunResult
NewRunResult == [newImages |-> <<>>, diffImages |-> <<>>]

Entry(t) ==
  [description |-> t.description, height |-> t.height,
   viewportName |-> t.viewportName]

addRecordingEqual(rr, t) ==
  IF t.result = "new"
  THEN [rr EXCEPT !.newImages = Append(@, Entry(t))]
  ELSE [rr EXCEPT !.diffImages = Append(@, Entry(t))]

add(rr, t) ==
  IF t.result = "equal" THEN rr
  ELSE IF t.result = "new"
       THEN [rr EXCEPT !.newImages = Append(@, Entry(t))]
       ELSE [rr EXCEPT !.diffImages = Append(@, Entry(t))]

merge(into, rr) ==
  [newImages |-> into.newImages \o rr.newImages,
   diffImages |-> into.diffImages \o rr.diffImages]

\* ---------------------------------------------------- getExamplesByViewport
\* Object.assign({}, config.viewports[viewport], { name: viewport })
viewportOf(name) ==
  [name |-> name, width |-> ViewportSizes[name].width,
   height |-> ViewportSizes[name].height]

\* driver.manage().window().setSize(width, height) and
\* driver.executeAsyncScript(..., description, ...) as they are sent.
Sent(cmd) ==
  IF cmd.op = "setSize"
  THEN <<[op |-> cmd.op, arg |-> cmd.arg, width |-> viewportOf(cmd.arg).width,
          height |-> viewportOf(cmd.arg).height]>>
  ELSE IF cmd.op = "executeAsyncScript"
  THEN <<[op |-> cmd.op, arg |-> cmd.arg, width |-> 0, height |-> 0]>>
  ELSE <<>>

RECURSIVE SentAll(_)
SentAll(cmds) ==
  IF cmds = {} THEN <<>>
  ELSE LET cmd == CHOOSE x \in cmds : TRUE
       IN  Sent(cmd) \o SentAll(cmds \ {cmd})

resolveViewports(example) ==
  IF example.options.viewports = {}
  THEN SubSeq(ConfigViewports, 1, 1)
  ELSE CHOOSE l \in example.options.viewports : TRUE

\* acc = [names |-> keys in insertion order, examples |-> name -> descriptions]
PushExample(acc, name, description) ==
  IF name \in DOMAIN acc.examples
  THEN [acc EXCEPT !.examples[name] = Append(@, description)]
  ELSE [names |-> Append(acc.names, name),
        examples |-> Put(acc.examples, name, <<description>>)]

RECURSIVE PushViewports(_, _, _)
PushViewports(acc, names, description) ==
  IF names = <<>> THEN acc
  ELSE PushViewports(PushExample(acc, Head(names), description),
                     Tail(names), description)

RECURSIVE GroupExamples(_, _)
GroupExamples(acc, examples) ==
  IF examples = <<>> THEN acc
  ELSE GroupExamples(
         PushViewports(acc, resolveViewports(Head(examples)),
                       Head(examples).description),
         Tail(examples))

groupByViewport(examples) ==
  GroupExamples([names |-> <<>>, examples |-> EmptyMap], examples)

\* ------------------------------------------------------------ compareAndSave
TaskKey(t) == <<t.description, t.viewportName>>

Active(t) == t.pc \in {"reading", "writingNew", "writingDiff"}

keepStalePrevious(prev, k) == prev

\* if (fs.existsSync(previousImagePath)) fs.unlinkSync(previousImagePath)
unlinkStalePrevious(prev, k) == Remove(prev, k)

diffHeightOfSnapshot(snapshotImage, currentImage) == snapshotImage.height

\* Math.max(snapshotImage.height, currentImage.height)
diffHeight(snapshotImage, currentImage) ==
  Max(snapshotImage.height, currentImage.height)

\* The synchronous part of a call: the promise executor up to the point where
\* it starts to read current.png or to write it.  fault names the call that
\* throws, if any.  Yields the new previous files, the task and the failure.
compareAndSave(prev, cur, description, vpName, snapshotImage, fault) ==
  LET k == <<description, vpName>>
      t == [description |-> description, viewportName |-> vpName,
            snapshotImage |-> snapshotImage, pc |-> "rejected",
            currentImage |-> <<>>, result |-> "none", height |-> 0,
            before |-> [current |-> IF k \in DOMAIN cur THEN <<cur[k]>> ELSE <<>>,
                        previous |-> IF k \in DOMAIN prev THEN <<prev[k]>> ELSE <<>>]]
  IN  IF existsSync(prev, k) /\ fault = "unlink"
      THEN [previous |-> prev, task |-> t, failed |-> {"unlink"}]
      ELSE IF existsSync(cur, k)
      THEN [previous |-> unlinkStalePrevious(prev, k),
            task |-> [t EXCEPT !.pc = "reading"], failed |-> {}]
      ELSE IF fault = "mkdirp"
      THEN [previous |-> unlinkStalePrevious(prev, k), task |-> t,
            failed |-> {"mkdirp"}]
      ELSE [previous |-> unlinkStalePrevious(prev, k),
            task |-> [t EXCEPT !.pc = "writingNew"], failed |-> {}]

CallFaults == {"none", "unlink", "mkdirp"}

Persistence(kinds) == {<<"PersistenceError", x>> : x \in kinds}

\* current.png has been read and decoded: compare, then resolve 'equal' or
\* rename current.png to previous.png and start writing the new current.png.
TaskParsed(i, fault) ==
  LET t == tasks[i]
      k == TaskKey(t)
  IN  /\ t.pc = "reading"
      /\ IF fault = "read" \/ ~existsSync(current, k)
         THEN /\ tasks' = [tasks EXCEPT ![i].pc = "lost"]
              /\ failures' = failures \cup Persistence({"read"})
              /\ UNCHANGED <<current, previous>>
         ELSE IF areImagesEqual(current[k], t.snapshotImage)
         THEN /\ tasks' = [tasks EXCEPT ![i].pc = "resolved",
                                        ![i].currentImage = <<current[k]>>,
                                        ![i].result = "equal"]
              /\ UNCHANGED <<current, previous, failures>>
         ELSE IF fault = "rename"
         THEN /\ tasks' = [tasks EXCEPT ![i].pc = "lost",
                                        ![i].currentImage = <<current[k]>>]
              /\ failures' = failures \cup Persistence({"rename"})
              /\ UNCHANGED <<current, previous>>
         ELSE /\ tasks' = [tasks EXCEPT ![i].pc = "writingDiff",
                                        ![i].currentImage = <<current[k]>>]
              /\ previous' = Put(previous, k, current[k])
              /\ current' = Remove(current, k)
              /\ UNCHANGED failures

\* The write stream of the new current.png emits 'finish' (or fails).
TaskFinish(i, fault) ==
  LET t == tasks[i]
      k == TaskKey(t)
  IN  /\ t.pc \in {"writingNew", "writingDiff"}
      /\ IF fault = "write"
         THEN /\ tasks' = [tasks EXCEPT ![i].pc = "lost"]
              /\ failures' = failures \cup Persistence({"write"})
              /\ UNCHANGED <<current, previous>>
         ELSE /\ current' = Put(current, k, t.snapshotImage)
              /\ tasks' =
                   [tasks EXCEPT
                      ![i].pc = "resolved",
                      ![i].result = IF t.pc = "writingDiff" THEN "diff" ELSE "new",
                      ![i].height =
                        IF t.pc = "writingDiff"
                        THEN diffHeight(t.snapshotImage, t.currentImage[1])
                        ELSE t.snapshotImage.height]
              /\ UNCHANGED <<previous, failures>>

TaskStep(i) ==
  \/ \E fault \in {"none", "read", "rename"} : TaskParsed(i, fault)
  \/ \E fault \in {"none", "write"} : TaskFinish(i, fault)

\* ----------------------------------------------------------- runVisualDiffs
\* .catch((error) => { driver.close(); reject(error); })
Reject(c, error) ==
  /\ pending' = pending \ {c}
  /\ driver' = "closed"
  /\ runState' = "rejected"
  /\ runError' = error
  /\ failures' = failures \cup {error}
  /\ UNCHANGED summaryFile

\* A rejection that no handler is attached to: nothing continues the chain.
Lost(c, failure) ==
  /\ pending' = pending \ {c}
  /\ failures' = failures \cup failure
  /\ UNCHANGED <<driver, runState, runError, summaryFile>>

ScriptOutcomes == {"fulfilled", "timeout", "error"}

ScriptFailure(outcome, script) ==
  {<<IF outcome = "timeout" THEN "ScriptTimeout" ELSE "ScriptError", script>>}

\* new Builder().forBrowser(...).build(); the outer .catch(reject) has no driver
InitializeDriver ==
  \E c \in pending, built \in BOOLEAN :
    /\ c.op = "initializeDriver"
    /\ IF built
       THEN /\ driver' = "open"
            /\ pending' = (pending \ {c}) \cup {Cmd("get", "/snapshot")}
            /\ UNCHANGED <<runState, runError, failures>>
       ELSE /\ runState' = "rejected"
            /\ runError' = <<"SessionInitError", "">>
            /\ failures' = failures \cup {<<"SessionInitError", "">>}
            /\ pending' = pending \ {c}
            /\ UNCHANGED driver
    /\ UNCHANGED workerVars
    /\ UNCHANGED <<summaryFile, loopVars, storeVars, historyVars>>

LoadTestPage ==
  \E c \in pending, loaded \in BOOLEAN :
    /\ c.op = "get"
    /\ IF loaded
       THEN /\ pending' = (pending \ {c}) \cup {Cmd("executeScript", "errors")}
            /\ UNCHANGED <<driver, runState, runError, summaryFile, failures>>
       ELSE Reject(c, <<"PageLoadError", "">>)
    /\ UNCHANGED workerVars
    /\ UNCHANGED <<loopVars, storeVars, historyVars>>

InitializationErrors == {<<>>, <<"ReferenceError">>}

initializationErrorsIgnored(errors) == FALSE

\* if (errors.length) { reject(...) }
hasInitializationErrors(errors) == Len(errors) # 0

CheckForInitializationErrors ==
  \E c \in pending, outcome \in ScriptOutcomes, errors \in InitializationErrors :
    /\ c = Cmd("executeScript", "errors")
    /\ IF outcome # "fulfilled"
       THEN Lost(c, ScriptFailure(outcome, "errors"))
       ELSE IF hasInitializationErrors(errors)
       THEN Reject(c, <<"PageScriptError", "">>)
       ELSE /\ pending' = (pending \ {c}) \cup {Cmd("executeScript", "examples")}
            /\ UNCHANGED <<driver, runState, runError, summaryFile, failures>>
    /\ page' = IF outcome = "fulfilled"
               THEN [page EXCEPT !.errors = <<errors>>] ELSE page
    /\ UNCHANGED workerVars
    /\ UNCHANGED <<loopVars, storeVars, issued>>

\* ------------------------------------------------------------- performDiffs
\* processViewportIter: the next resize, or resolve(combinedResult) and the
\* summary write that runVisualDiffs chains to it.
processViewportIterCmds(names) ==
  IF names = <<>> THEN {Cmd("writeFile", "")}
  ELSE {Cmd("setSize", Head(names))}

processViewportIter(c, names) ==
  /\ pending' = (pending \ {c}) \cup processViewportIterCmds(names)
  /\ issued' = issued \o SentAll(processViewportIterCmds(names))
  /\ IF names = <<>>
     THEN UNCHANGED <<viewportName, viewportNames>>
     ELSE /\ viewportName' = Head(names)
          /\ viewportNames' = Tail(names)

GetExamplesByViewport ==
  \E c \in pending, outcome \in ScriptOutcomes, examples \in Enumerations :
    /\ c = Cmd("executeScript", "examples")
    /\ IF outcome # "fulfilled"
       THEN /\ Lost(c, ScriptFailure(outcome, "examples"))
            /\ UNCHANGED <<loopVars, issued>>
       ELSE IF Len(examples) = 0
       THEN /\ Reject(c, <<"NoExamplesError", "">>)
            /\ UNCHANGED <<loopVars, issued>>
       ELSE LET grouped == groupByViewport(examples)
            IN  /\ examplesByViewport' = grouped.examples
                /\ combinedResult' = NewRunResult
                /\ IF grouped.names = <<>>
                   THEN /\ viewportNames' = <<>>
                        /\ pending' = (pending \ {c})
                                        \cup processViewportIterCmds(<<>>)
                        /\ UNCHANGED <<viewportName, issued>>
                   ELSE processViewportIter(c, grouped.names)
                /\ UNCHANGED <<driver, runState, runError, summaryFile, failures,
                               runResult, compareAndSavePromises, merged>>
    /\ page' = IF outcome = "fulfilled"
               THEN [page EXCEPT !.examples = <<examples>>] ELSE page
    /\ UNCHANGED workerVars
    /\ UNCHANGED storeVars

\* ----------------------------------------------------------- renderExamples
\* processNextExample: all examples shifted -> Promise.all(...), else the
\* render of the next one.
processLastExampleCmds(examples) ==
  IF examples = <<>> THEN {Cmd("Promise.all", "")}
  ELSE {Cmd("executeAsyncScript", examples[Len(examples)])}

processNextExampleCmds(examples) ==
  IF examples = <<>> THEN {Cmd("Promise.all", "")}
  ELSE {Cmd("executeAsyncScript", Head(examples))}

processNextExample(c) ==
  LET examples == examplesByViewport[viewportName]
  IN  /\ pending' = (pending \ {c}) \cup processNextExampleCmds(examples)
      /\ issued' = issued \o SentAll(processNextExampleCmds(examples))
      /\ examplesByViewport' =
           IF examples = <<>> THEN examplesByViewport
           ELSE [examplesByViewport EXCEPT ![viewportName] = Tail(examples)]

SetSize ==
  \E c \in pending, resized \in BOOLEAN :
    /\ c.op = "setSize"
    /\ IF resized
       THEN /\ runResult' = NewRunResult
            /\ compareAndSavePromises' = <<>>
            /\ processNextExample(c)
            /\ UNCHANGED <<driver, runState, runError, summaryFile, failures>>
       ELSE /\ Lost(c, {<<"ResizeError", c.arg>>})
            /\ UNCHANGED <<examplesByViewport, runResult, compareAndSavePromises,
                           issued>>
    /\ UNCHANGED workerVars
    /\ UNCHANGED <<viewportNames, viewportName, combinedResult, merged, storeVars,
                   page>>

\* The render reports { error } or the crop box.
RenderResults == {[error |-> ""], [error |-> "TypeError"]}

renderErrorIgnored(result) == FALSE

\* if (error) { reject(...); return undefined; }
renderFailed(result) == result.error # ""

thenScreenshotAndNextExample(description, examples) ==
  {Cmd("takeScreenshot", description)} \cup processNextExampleCmds(examples)

\* return takeCroppedScreenshot({...}).then(...): only the screenshot is
\* issued; processNextExample waits in its then.
thenScreenshot(description, examples) == {Cmd("takeScreenshot", description)}

ExecuteAsyncScript ==
  \E c \in pending, outcome \in ScriptOutcomes, result \in RenderResults :
    /\ c.op = "executeAsyncScript"
    /\ IF outcome # "fulfilled"
       THEN /\ Lost(c, ScriptFailure(outcome, "render"))
            /\ UNCHANGED issued
       ELSE IF renderFailed(result)
       THEN /\ Reject(c, <<"RenderError", c.arg>>)
            /\ UNCHANGED issued
       ELSE /\ pending' = (pending \ {c})
                            \cup thenScreenshot(c.arg, examplesByViewport[viewportName])
            /\ issued' = issued \o SentAll(
                 thenScreenshot(c.arg, examplesByViewport[viewportName]))
            /\ failures' = failures \cup
                 (IF result.error # "" THEN {<<"RenderError", c.arg>>} ELSE {})
            /\ UNCHANGED <<driver, runState, runError, summaryFile>>
    /\ UNCHANGED workerVars
    /\ UNCHANGED <<loopVars, storeVars, page>>

ScreenshotOutcomes == {"fulfilled", "rejected", "cropError"}

\* takeCroppedScreenshot resolved: compareAndSave is called (its promise is
\* pushed, not awaited) and processNextExample() goes on.
TakeCroppedScreenshot ==
  \E c \in pending, outcome \in ScreenshotOutcomes,
     snapshotImage \in Screenshots, fault \in CallFaults :
    /\ c.op = "takeScreenshot"
    /\ IF outcome # "fulfilled"
       THEN /\ Lost(c, {<<"ScreenshotError", outcome>>})
            /\ UNCHANGED <<examplesByViewport, compareAndSavePromises, storeVars,
                           issued>>
       ELSE LET call == compareAndSave(previous, current, c.arg, viewportName,
                                       snapshotImage, fault)
            IN  /\ tasks' = Append(tasks, call.task)
                /\ previous' = call.previous
                /\ compareAndSavePromises' =
                     Append(compareAndSavePromises, Len(tasks) + 1)
                /\ failures' = failures \cup Persistence(call.failed)
                /\ processNextExample(c)
                /\ UNCHANGED <<driver, runState, runError, summaryFile, current>>
    /\ UNCHANGED workerVars
    /\ UNCHANGED <<viewportNames, viewportName, combinedResult, runResult, merged,
                   page>>

\* A persistence task advances; when it resolves, its then adds the outcome
\* to the RunResult of the renderExamples call that started it.
PersistenceTask ==
  \E i \in 1..Len(tasks) :
    /\ TaskStep(i)
    /\ runResult' =
         IF tasks'[i].pc = "resolved" /\ tasks[i].viewportName = viewportName
         THEN add(runResult, tasks'[i])
         ELSE runResult
    /\ UNCHANGED workerVars
    /\ UNCHANGED <<chainVars, examplesByViewport, viewportNames, viewportName,
                   combinedResult, compareAndSavePromises, merged, historyVars>>

resolvesWithoutJoining(promises, ts) == TRUE

\* Promise.all(compareAndSavePromises) is fulfilled
allFulfilled(promises, ts) ==
  \A n \in 1..Len(promises) : ts[promises[n]].pc = "resolved"

anyRejected(promises, ts) ==
  \E n \in 1..Len(promises) : ts[promises[n]].pc = "rejected"

\* Promise.all(...).then(() => resolve({ driver, runResult })), then
\* combinedResult.merge(runResult) and processViewportIter.
JoinViewport ==
  \E c \in pending :
    /\ c.op = "Promise.all"
    /\ IF anyRejected(compareAndSavePromises, tasks)
       THEN /\ Lost(c, {})
            /\ UNCHANGED <<viewportNames, viewportName, combinedResult, merged,
                           issued>>
       ELSE /\ allFulfilled(compareAndSavePromises, tasks)
            /\ combinedResult' = merge(combinedResult, runResult)
            /\ merged' = Append(merged, viewportName)
            /\ processViewportIter(c, viewportNames)
            /\ UNCHANGED <<driver, runState, runError, summaryFile, failures>>
    /\ UNCHANGED workerVars
    /\ UNCHANGED <<examplesByViewport, runResult, compareAndSavePromises, storeVars,
                   page>>

\* fs.writeFile(pathToFile, JSON.stringify(...)) called back
SaveResultToFile ==
  \E c \in pending, written \in BOOLEAN :
    /\ c.op = "writeFile"
    /\ IF written
       THEN /\ summaryFile' = <<combinedResult>>
            /\ driver' = "closed"
            /\ runState' = "resolved"
            /\ pending' = pending \ {c}
            /\ UNCHANGED <<runError, failures>>
       ELSE Reject(c, <<"SummaryWriteError", "">>)
    /\ UNCHANGED workerVars
    /\ UNCHANGED <<loopVars, storeVars, historyVars>>

\* -------------------------------------------------------------------- Spec
\* The snapshot folder as earlier runs may have left it.
DiskShapes ==
  {[k \in Keys |-> byDescription[k[1]]] :
     byDescription \in [Descriptions -> {"none", "current", "both"}]}

Init ==
  /\ pending = {Cmd("initializeDriver", "")}
  /\ driver = "none"
  /\ runState = "pending"
  /\ runError = NoError
  /\ summaryFile = <<>>
  /\ examplesByViewport = EmptyMap
  /\ viewportNames = <<>>
  /\ viewportName = ""
  /\ combinedResult = NewRunResult
  /\ runResult = NewRunResult
  /\ compareAndSavePromises = <<>>
  /\ tasks = <<>>
  /\ \E shape \in DiskShapes :
       /\ current = [k \in {x \in Keys : shape[x] # "none"} |-> ImgBase]
       /\ previous = [k \in {x \in Keys : shape[x] = "both"} |-> ImgLastByte]
  /\ failures = {}
  /\ merged = <<>>
  /\ page = NothingReported
  /\ issued = <<>>
  /\ WorkerListening

Next ==
  \/ InitializeDriver
  \/ LoadTestPage
  \/ CheckForInitializationErrors
  \/ GetExamplesByViewport
  \/ SetSize
  \/ ExecuteAsyncScript
  \/ TakeCroppedScreenshot
  \/ PersistenceTask
  \/ JoinViewport
  \/ SaveResultToFile

Spec == Init /\ [][Next]_vars

\* Nothing can happen any more: no persistence task is in progress and nothing
\* of the run is outstanding, except a Promise.all that waits for a promise
\* that will never settle.
Quiescent ==
  /\ \A i \in 1..Len(tasks) : ~Active(tasks[i])
  /\ \A c \in pending :
       /\ c.op = "Promise.all"
       /\ ~anyRejected(compareAndSavePromises, tasks)
       /\ ~allFulfilled(compareAndSavePromises, tasks)

\* --------------------------------------------------------------- StoreSpec
\* The snapshot store on its own: compareAndSave is called with any key and
\* any image, over and over (as successive runs do), starting from a snapshot
\* folder as earlier runs may have left it.  Calls on different keys overlap;
\* a key is not called again while an earlier call on that key is still in
\* progress.
\* The keys the store is called with on its own: two examples of one viewport.
StoreKeys == {k \in Keys : k[2] = ConfigViewports[1]}

StoreInit ==
  /\ pending = {}
  /\ driver = "none"
  /\ runState = "pending"
  /\ runError = NoError
  /\ summaryFile = <<>>
  /\ examplesByViewport = EmptyMap
  /\ viewportNames = <<>>
  /\ viewportName = ""
  /\ combinedResult = NewRunResult
  /\ runResult = NewRunResult
  /\ compareAndSavePromises = <<>>
  /\ tasks = <<>>
  /\ \E shape \in DiskShapes :
       /\ current = [k \in {x \in StoreKeys : shape[x] # "none"} |-> ImgBase]
       /\ previous = [k \in {x \in StoreKeys : shape[x] = "both"} |-> ImgLastByte]
  /\ failures = {}
  /\ merged = <<>>
  /\ page = NothingReported
  /\ issued = <<>>
  /\ WorkerListening

StoreCall ==
  \E k \in StoreKeys, snapshotImage \in Images, fault \in CallFaults :
    /\ Len(tasks) < MaxCalls
    /\ \A i \in 1..Len(tasks) : TaskKey(tasks[i]) = k => ~Active(tasks[i])
    /\ LET call == compareAndSave(previous, current, k[1], k[2],
                                  snapshotImage, fault)
       IN  /\ tasks' = Append(tasks, call.task)
           /\ previous' = call.previous
           /\ failures' = failures \cup Persistence(call.failed)
    /\ UNCHANGED workerVars
    /\ UNCHANGED <<chainVars, loopVars, current, historyVars>>

StoreTask ==
  \E i \in 1..Len(tasks) :
    /\ TaskStep(i)
    /\ UNCHANGED workerVars
    /\ UNCHANGED <<chainVars, loopVars, historyVars>>

StoreNext == StoreCall \/ StoreTask

StoreSpec == StoreInit /\ [][StoreNext]_vars

\* ------------------------------------------------------------------ claims
\* -------------------------------------------------------------- diff worker
\* The images a diff is requested for: every row is one shade, so that rows
\* of the two images match or differ as wholes.
WorkerWidths == {1, 2}
RowShades == {0, 1}

RowsImage(width, shades) ==
  [height |-> Len(shades), width |-> width,
   data |-> [i \in 1..(Len(shades) * width * 4) |->
               shades[((i - 1) \div (width * 4)) + 1]]]

WorkerImages ==
  {RowsImage(w, shades) : w \in WorkerWidths, shades \in SeqsUpTo(RowShades, MaxRows)}

\* A pixel row is an object: ref is its identity, bytes its contents.
\* pixelsInRow = new Uint8ClampedArray(rowSize + paddingRight * 4) is zero
\* filled; the first rowSize bytes are copied from data.
imageTo2DArrayUnpadded(image, paddingRight, owner) ==
  [row \in 1..image.height |->
     [ref |-> <<owner, row>>,
      bytes |-> [location \in 1..(image.width * 4) |->
                   image.data[((row - 1) * image.width * 4) + location]]]]

imageTo2DArray(image, paddingRight, owner) ==
  [row \in 1..image.height |->
     [ref |-> <<owner, row>>,
      bytes |-> [location \in 1..(image.width * 4) |->
                   image.data[((row - 1) * image.width * 4) + location]]
                \o Zeros(paddingRight * 4)]]

\* Math.max(previousData.width, currentData.width)
maxWidth(previousData, currentData) == Max(previousData.width, currentData.width)

\* JSON.stringify of a typed array lists every index with its value: equal
\* strings for equal contents only, whatever object holds them.
JSONstringify(row) == <<"json", row.bytes>>

hashRowsReversed(imageData) ==
  [n \in 1..Len(imageData) |-> JSONstringify(imageData[Len(imageData) + 1 - n])]

\* imageData.map(JSON.stringify)
hashRows(imageData) ==
  [n \in 1..Len(imageData) |-> JSONstringify(imageData[n])]

\* The string alignArrays marks a gap with; no JSON text equals it.
PLACEHOLDER == <<"placeholder", <<>> >>

RECURSIVE LCSLength(_, _)
LCSLength(a, b) ==
  IF a = <<>> \/ b = <<>> THEN 0
  ELSE IF Head(a) = Head(b) THEN 1 + LCSLength(Tail(a), Tail(b))
  ELSE Max(LCSLength(Tail(a), b), LCSLength(a, Tail(b)))

\* alignArrays(a, b): both arrays are walked against a longest common
\* subsequence; an element only in one array stays in place and the
\* placeholder is inserted at its position in the other.
RECURSIVE alignArrays(_, _)
alignArrays(a, b) ==
  IF a = <<>> THEN [a |-> [n \in 1..Len(b) |-> PLACEHOLDER], b |-> b]
  ELSE IF b = <<>> THEN [a |-> a, b |-> [n \in 1..Len(a) |-> PLACEHOLDER]]
  ELSE IF Head(a) = Head(b)
  THEN LET rest == alignArrays(Tail(a), Tail(b))
       IN  [a |-> <<Head(a)>> \o rest.a, b |-> <<Head(b)>> \o rest.b]
  ELSE IF LCSLength(Tail(a), b) >= LCSLength(a, Tail(b))
  THEN LET rest == alignArrays(Tail(a), b)
       IN  [a |-> <<Head(a)>> \o rest.a, b |-> <<PLACEHOLDER>> \o rest.b]
  ELSE LET rest == alignArrays(a, Tail(b))
       IN  [a |-> <<PLACEHOLDER>> \o rest.a, b |-> <<Head(b)>> \o rest.b]

\* new Uint8ClampedArray(maxWidth * 4): one object, spliced in at every gap
transparentLine(width) == [ref |-> <<"transparentLine", 0>>, bytes |-> Zeros(width * 4)]

spliceAfter(array, start, item) ==
  LET at == IF start + 1 > Len(array) THEN Len(array) ELSE start + 1
  IN  SubSeq(array, 1, at) \o <<item>> \o SubSeq(array, at + 1, Len(array))

\* array.splice(start, 0, item), start counted from 0; a start beyond the
\* end inserts at the end.
splice(array, start, item) ==
  LET at == IF start > Len(array) THEN Len(array) ELSE start
  IN  SubSeq(array, 1, at) \o <<item>> \o SubSeq(array, at + 1, Len(array))

\* hashedData.forEach((hashedLine, i) => { if (hashedLine === PLACEHOLDER)
\*   imageData.splice(i, 0, transparentLine); }), from index i on.
RECURSIVE injectGaps(_, _, _, _)
injectGaps(hashedData, imageData, line, i) ==
  IF i >= Len(hashedData) THEN imageData
  ELSE injectGaps(hashedData,
                  IF hashedData[i + 1] = PLACEHOLDER
                  THEN splice(imageData, i, line) ELSE imageData,
                  line, i + 1)

postMessage(queue, message) == Append(queue, message)

\* The message arrives: computeAndInjectDiffs converts both images to row
\* arrays and reports progress 20.
ConvertRows ==
  \E previousData \in WorkerImages, currentData \in WorkerImages :
    /\ wpc = "listening"
    /\ request' = [previousData |-> previousData, currentData |-> currentData]
    /\ previousImageData' =
         imageTo2DArray(previousData,
                        maxWidth(previousData, currentData) - previousData.width,
                        "previous")
    /\ currentImageData' =
         imageTo2DArray(currentData,
                        maxWidth(previousData, currentData) - currentData.width,
                        "current")
    /\ posted' = postMessage(posted, [progress |-> 20])
    /\ wpc' = "converted"
    /\ UNCHANGED <<hashedPreviousData, hashedCurrentData, runVars>>

HashPreviousSilently ==
  /\ wpc = "converted"
  /\ hashedPreviousData' = hashRows(previousImageData)
  /\ wpc' = "hashedPrevious"
  /\ UNCHANGED <<request, previousImageData, currentImageData,
                 hashedCurrentData, posted, runVars>>

HashPrevious ==
  /\ wpc = "converted"
  /\ hashedPreviousData' = hashRows(previousImageData)
  /\ posted' = postMessage(posted, [progress |-> 40])
  /\ wpc' = "hashedPrevious"
  /\ UNCHANGED <<request, previousImageData, currentImageData,
                 hashedCurrentData, runVars>>

HashCurrent ==
  /\ wpc = "hashedPrevious"
  /\ hashedCurrentData' = hashRows(currentImageData)
  /\ posted' = postMessage(posted, [progress |-> 60])
  /\ wpc' = "hashedCurrent"
  /\ UNCHANGED <<request, previousImageData, currentImageData,
                 hashedPreviousData, runVars>>

\* alignArrays changes both fingerprint arrays in place.
AlignArrays ==
  /\ wpc = "hashedCurrent"
  /\ LET aligned == alignArrays(hashedPreviousData, hashedCurrentData)
     IN  /\ hashedPreviousData' = aligned.a
         /\ hashedCurrentData' = aligned.b
  /\ wpc' = "aligned"
  /\ UNCHANGED <<request, previousImageData, currentImageData, posted, runVars>>

InjectGaps ==
  /\ wpc = "aligned"
  /\ LET line == transparentLine(maxWidth(request.previousData, request.currentData))
     IN  /\ previousImageData' =
               injectGaps(hashedPreviousData, previousImageData, line, 0)
         /\ currentImageData' =
               injectGaps(hashedCurrentData, currentImageData, line, 0)
  /\ wpc' = "injected"
  /\ UNCHANGED <<request, hashedPreviousData, hashedCurrentData, posted, runVars>>

ReportAligned ==
  /\ wpc = "injected"
  /\ posted' = postMessage(posted, [progress |-> 85])
  /\ wpc' = "reported"
  /\ UNCHANGED <<request, previousImageData, currentImageData,
                 hashedPreviousData, hashedCurrentData, runVars>>

\* self.postMessage(result)
PostResult ==
  /\ wpc = "reported"
  /\ posted' = postMessage(posted,
       [currentData |->
          [data |-> currentImageData, height |-> Len(currentImageData),
           width |-> maxWidth(request.previousData, request.currentData)],
        previousData |->
          [data |-> previousImageData, height |-> Len(previousImageData),
           width |-> maxWidth(request.previousData, request.currentData)]])
  /\ wpc' = "posted"
  /\ UNCHANGED <<request, previousImageData, currentImageData,
                 hashedPreviousData, hashedCurrentData, runVars>>

\* self.close()
Close ==
  /\ wpc = "posted"
  /\ wpc' = "closed"
  /\ UNCHANGED <<request, previousImageData, currentImageData,
                 hashedPreviousData, hashedCurrentData, posted, runVars>>

WorkerInit ==
  /\ pending = {}
  /\ driver = "none"
  /\ runState = "pending"
  /\ runError = NoError
  /\ summaryFile = <<>>
  /\ examplesByViewport = EmptyMap
  /\ viewportNames = <<>>
  /\ viewportName = ""
  /\ combinedResult = NewRunResult
  /\ runResult = NewRunResult
  /\ compareAndSavePromises = <<>>
  /\ tasks = <<>>
  /\ current = EmptyMap
  /\ previous = EmptyMap
  /\ failures = {}
  /\ merged = <<>>
  /\ page = NothingReported
  /\ issued = <<>>
  /\ WorkerListening

WorkerNext ==
  \/ ConvertRows
  \/ HashPrevious
  \/ HashCurrent
  \/ AlignArrays
  \/ InjectGaps
  \/ ReportAligned
  \/ PostResult
  \/ Close

WorkerSpec == WorkerInit /\ [][WorkerNext]_vars

\* ------------------------------------------------------------------ claims
Range(q) == {q[n] : n \in 1..Len(q)}

RemoteOutstanding == {c \in pending : c.op \in RemoteOps}

PendingOp(op) == \E c \in pending : c.op = op

Occurred(kind) == \E f \in failures : f[1] = kind

C2_TasksJoinedBeforeMerge ==
  /\ \A i \in 1..Len(tasks) :
       tasks[i].viewportName \in Range(merged) =>
         /\ tasks[i].pc = "resolved"
         /\ tasks[i].result = "new" =>
              Entry(tasks[i]) \in Range(combinedResult.newImages)
         /\ tasks[i].result = "diff" =>
              Entry(tasks[i]) \in Range(combinedResult.diffImages)
  /\ PendingOp("setSize") =>
       \A i \in 1..Len(tasks) : tasks[i].viewportName \in Range(merged)

\* The second viewport's resize is outstanding after a first viewport whose
\* tasks produced an entry of the run-wide result.
C2_Witness ==
  /\ PendingOp("setSize")
  /\ merged # <<>>
  /\ \E i \in 1..Len(tasks) : tasks[i].result \in {"new", "diff"}

\* C3: once a render has reported an error the run is rejected with that
\* error, nothing is outstanding or issued any more, the session is closed
\* and the summary is not written.
C3_RenderErrorAbortsRun ==
  \A f \in failures :
    f[1] = "RenderError" =>
      /\ runState = "rejected"
      /\ runError = f
      /\ pending = {}
      /\ driver = "closed"
      /\ summaryFile = <<>>

\* A render failed after an earlier example was captured and while another
\* viewport was still to come.
C3_Witness ==
  /\ runError[1] = "RenderError"
  /\ tasks # <<>>
  /\ viewportNames # <<>>

\* C4: when the run has failed on the render of an example (and no disk
\* operation failed), the artifact of every other example captured before it
\* is on disk: current holds the image of the last capture of its key.
C4_ArtifactsPersistedAtAbort ==
  (runError[1] = "RenderError" /\ ~Occurred("PersistenceError")) =>
    \A i \in 1..Len(tasks) :
      (/\ tasks[i].description # runError[2]
       /\ \A j \in (i + 1)..Len(tasks) : TaskKey(tasks[j]) # TaskKey(tasks[i])) =>
        /\ existsSync(current, TaskKey(tasks[i]))
        /\ current[TaskKey(tasks[i])] = tasks[i].snapshotImage

\* C5: after a failure with the session acquired, a run with nothing left
\* outstanding has been rejected, and a settled run has closed its session.
C5_FailuresBubbleAndSessionReleased ==
  /\ (failures # {} /\ driver # "none" /\ Quiescent) =>
       (runState = "rejected" /\ driver = "closed")
  /\ (runState # "pending" /\ driver # "none") => driver = "closed"

\* C6: after a script timeout, a run with nothing left outstanding has been
\* rejected (it is not left pending).
C6_ScriptTimeoutFailsRun ==
  (Occurred("ScriptTimeout") /\ Quiescent) => runState = "rejected"

\* C7: after a disk failure in a persistence task, a run with nothing left
\* outstanding has been rejected and has not written the summary.
C7_PersistenceFailureFailsRun ==
  (Occurred("PersistenceError") /\ Quiescent) =>
    (runState = "rejected" /\ summaryFile = <<>>)

\* Task i completes in this step.
Completes(i) == tasks[i].pc # "resolved" /\ tasks'[i].pc = "resolved"

\* C8: a call made when the key had no current artifact completes with
\* outcome new and the image's height, and at that moment current holds the
\* image and no previous artifact exists for the key.
C8_NoCurrentYieldsNew ==
  [][\A i \in 1..Len(tasks) :
       (Completes(i) /\ tasks[i].before.current = <<>>) =>
         LET k == TaskKey(tasks[i])
         IN  /\ tasks'[i].result = "new"
             /\ tasks'[i].height = tasks[i].snapshotImage.height
             /\ existsSync(current', k)
             /\ current'[k] = tasks[i].snapshotImage
             /\ ~existsSync(previous', k)]_vars

\* A call found a stale previous artifact and no current one, and completed.
C8_Witness ==
  \E i \in 1..Len(tasks) :
    /\ tasks[i].pc = "resolved"
    /\ tasks[i].result = "new"
    /\ tasks[i].before.current = <<>>
    /\ tasks[i].before.previous # <<>>

CallsOn(k) == {i \in 1..Len(tasks) : TaskKey(tasks[i]) = k}

LastCallOn(k) == CHOOSE i \in CallsOn(k) : \A j \in CallsOn(k) : j <= i

C12_EachKeyOncePerRun ==
  \A i, j \in 1..Len(tasks) :
    i # j => TaskKey(tasks[i]) # TaskKey(tasks[j])

AllEntries(rr) == Range(rr.newImages) \cup Range(rr.diffImages)

\* C15: every entry of newImages, in the viewport's and in the run-wide
\* RunResult, is the outcome of a task classified new, every entry of
\* diffImages that of a task classified diff, and the outcome of a task
\* classified equal is in neither list.
C15_OnlyNewAndDiffRecorded ==
  \A rr \in {runResult, combinedResult} :
    /\ \A e \in Range(rr.newImages) :
         \E i \in 1..Len(tasks) :
           tasks[i].result = "new" /\ Entry(tasks[i]) = e
    /\ \A e \in Range(rr.diffImages) :
         \E i \in 1..Len(tasks) :
           tasks[i].result = "diff" /\ Entry(tasks[i]) = e
    /\ \A i \in 1..Len(tasks) :
         tasks[i].result = "equal" => Entry(tasks[i]) \notin AllEntries(rr)

\* A viewport with an equal outcome and a recorded one has been merged.
C15_Witness ==
  /\ merged # <<>>
  /\ AllEntries(combinedResult) # {}
  /\ \E i \in 1..Len(tasks) :
       tasks[i].result = "equal" /\ tasks[i].viewportName \in Range(merged)

\* Something of a capture, or the summary write, has been started or done.
CaptureStarted ==
  \/ \E c \in pending :
       c.op \in {"setSize", "executeAsyncScript", "takeScreenshot",
                 "Promise.all", "writeFile"}
  \/ issued # <<>>
  \/ tasks # <<>>
  \/ summaryFile # <<>>

\* C13: a resize, render, screenshot, snapshot write or summary write happens
\* only after the page reported no initialization error and at least one
\* example; when it reports an initialization error or no example, the run
\* is rejected and the session closed with nothing captured.
C13_NoCaptureUnlessPageReady ==
  /\ CaptureStarted =>
       /\ page.errors = << <<>> >>
       /\ page.examples # <<>>
       /\ Len(page.examples[1]) >= 1
  /\ (page.errors \notin {<<>>, << <<>> >>} \/ page.examples = << <<>> >>) =>
       /\ runState = "rejected"
       /\ driver = "closed"
       /\ ~CaptureStarted

\* The page reported an initialization error and the run has failed.
C13_Witness ==
  /\ page.errors # <<>>
  /\ Len(page.errors[1]) > 0
  /\ runState = "rejected"

RECURSIVE ExpectedCommands(_, _)
ExpectedCommands(names, byViewport) ==
  IF names = <<>> THEN <<>>
  ELSE <<[op |-> "setSize", arg |-> Head(names),
          width |-> ViewportSizes[Head(names)].width,
          height |-> ViewportSizes[Head(names)].height]>>
       \o [n \in 1..Len(byViewport[Head(names)]) |->
             [op |-> "executeAsyncScript", arg |-> byViewport[Head(names)][n],
              width |-> 0, height |-> 0]]
       \o ExpectedCommands(Tail(names), byViewport)

IsPrefix(p, q) == Len(p) <= Len(q) /\ SubSeq(q, 1, Len(p)) = p

\* C14: the resize and render commands issued so far are a prefix of: for
\* each viewport in enumeration order, one resize to its width and height
\* followed by the renders of its examples in listed order; on a run that
\* succeeded they are the whole of it.
C14_CommandsInListedOrder ==
  IF page.examples = <<>> THEN issued = <<>>
  ELSE LET grouped == groupByViewport(page.examples[1])
           expected == ExpectedCommands(grouped.names, grouped.examples)
       IN  /\ IsPrefix(issued, expected)
           /\ runState = "resolved" => issued = expected

\* A run over two viewports, one of them with two examples, has succeeded.
C14_Witness ==
  /\ runState = "resolved"
  /\ Len(merged) = 2
  /\ Len(issued) >= 5

\* The (description, viewportName) pairs of an enumeration.
PairsOf(examples) ==
  UNION {{<<examples[n].description, v>> :
            v \in Range(resolveViewports(examples[n]))} : n \in 1..Len(examples)}

IndexIn(q, x) == CHOOSE n \in 1..Len(q) : q[n] = x

\* C19: on a run that succeeded every enumerated pair has exactly one
\* persistence task, each list of the summary has exactly one entry for each
\* task classified new, respectively diff, and in each list the entries of
\* an earlier viewport come before those of a later one.
C19_SummaryMatchesOutcomes ==
  runState = "resolved" =>
    LET examples == page.examples[1]
        names == groupByViewport(examples).names
        summary == summaryFile[1]
        ListOk(list, result) ==
          /\ \A m, n \in 1..Len(list) : m # n => list[m] # list[n]
          /\ Range(list) = {Entry(tasks[i]) :
                              i \in {j \in 1..Len(tasks) : tasks[j].result = result}}
          /\ \A m, n \in 1..Len(list) :
               m < n => IndexIn(names, list[m].viewportName)
                          <= IndexIn(names, list[n].viewportName)
    IN  /\ \A p \in PairsOf(examples) :
             Cardinality({i \in 1..Len(tasks) : TaskKey(tasks[i]) = p}) = 1
        /\ \A i \in 1..Len(tasks) : TaskKey(tasks[i]) \in PairsOf(examples)
        /\ ListOk(summary.newImages, "new")
        /\ ListOk(summary.diffImages, "diff")

StripGaps(hashedData) == SelectSeq(hashedData, LAMBDA x : x # PLACEHOLDER)

\* C16: when the two fingerprint arrays have been aligned they have one
\* length, at least the longer and at most the sum of the two inputs'
\* lengths; at every position both hold the same fingerprint or exactly one
\* holds the placeholder; and without the placeholders they are the
\* fingerprints of the two images' rows, in order.
C16_AlignedFingerprints ==
  wpc = "aligned" =>
    LET A == [n \in 1..Len(previousImageData) |-> JSONstringify(previousImageData[n])]
        B == [n \in 1..Len(currentImageData) |-> JSONstringify(currentImageData[n])]
        L == Len(hashedPreviousData)
    IN  /\ Len(hashedCurrentData) = L
        /\ L >= Max(Len(A), Len(B))
        /\ L <= Len(A) + Len(B)
        /\ \A i \in 1..L :
             \/ /\ hashedPreviousData[i] # PLACEHOLDER
                /\ hashedCurrentData[i] = hashedPreviousData[i]
             \/ /\ hashedPreviousData[i] = PLACEHOLDER
                /\ hashedCurrentData[i] # PLACEHOLDER
             \/ /\ hashedPreviousData[i] # PLACEHOLDER
                /\ hashedCurrentData[i] = PLACEHOLDER
        /\ StripGaps(hashedPreviousData) = A
        /\ StripGaps(hashedCurrentData) = B

\* An alignment with a matching position, a gap in the previous image and a
\* gap in the current one.
C16_Witness ==
  /\ wpc = "aligned"
  /\ \E i, j, k \in 1..Len(hashedPreviousData) :
       /\ hashedPreviousData[i] = hashedCurrentData[i]
       /\ hashedPreviousData[j] = PLACEHOLDER
       /\ hashedCurrentData[k] = PLACEHOLDER

IsGapRow(row) == row.ref[1] = "transparentLine"

\* C17: the two images of the final message have the same height, the
\* number of their rows, and the same width, the larger of the two
\* requested widths; each of their rows is width * 4 bytes long and every
\* injected gap row is all zero.
C17_ResultImagesSameShape ==
  wpc \in {"posted", "closed"} =>
    LET result == posted[Len(posted)]
        width == Max(request.previousData.width, request.currentData.width)
    IN  /\ result.previousData.height = result.currentData.height
        /\ \A image \in {result.previousData, result.currentData} :
             /\ image.width = width
             /\ image.height = Len(image.data)
             /\ \A n \in 1..Len(image.data) :
                  /\ Len(image.data[n].bytes) = width * 4
                  /\ IsGapRow(image.data[n]) =>
                       \A m \in 1..(width * 4) : image.data[n].bytes[m] = 0

\* Images of different widths and heights, one of them padded with a gap row.
C17_Witness ==
  /\ wpc = "posted"
  /\ request.previousData.width # request.currentData.width
  /\ request.previousData.height # request.currentData.height
  /\ request.previousData.height > 0
  /\ request.currentData.height > 0
  /\ \E n \in 1..Len(previousImageData) : IsGapRow(previousImageData[n])

\* C18: the messages posted so far are the beginning of: progress 20, 40,
\* 60, 85, then the one message with previousData and currentData; a worker
\* that has closed has posted all five.
C18_ProgressThenResult ==
  /\ Len(posted) <= 5
  /\ \A n \in 1..Len(posted) :
       IF n <= 4
       THEN /\ DOMAIN posted[n] = {"progress"}
            /\ posted[n].progress = <<20, 40, 60, 85>>[n]
       ELSE DOMAIN posted[n] = {"currentData", "previousData"}
  /\ wpc \in {"posted", "closed"} => Len(posted) = 5

\* The worker has closed after its fifth message.
C18_Witness ==
  /\ wpc = "closed"
  /\ Len(posted) = 5
  /\ request.previousData.height > 0

Mirrors(imageData, hashedData, rows) ==
  /\ Len(imageData) = Len(hashedData)
  /\ \A i \in 1..Len(imageData) :
       /\ IsGapRow(imageData[i]) <=> hashedData[i] = PLACEHOLDER
       /\ ~IsGapRow(imageData[i]) => JSONstringify(imageData[i]) = hashedData[i]
  /\ SelectSeq(imageData, LAMBDA row : ~IsGapRow(row)) = rows

\* C20: once the gaps are injected, each pixel-row array is as long as its
\* aligned fingerprint array, its row i is the transparent line exactly when
\* fingerprint i is the placeholder, and its other rows are the image's own
\* rows, in order and unchanged.
C20_InjectedRowsMirrorFingerprints ==
  wpc \in {"injected", "reported", "posted", "closed"} =>
    LET width == Max(request.previousData.width, request.currentData.width)
    IN  /\ Mirrors(previousImageData, hashedPreviousData,
                   imageTo2DArray(request.previousData,
                                  width - request.previousData.width, "previous"))
        /\ Mirrors(currentImageData, hashedCurrentData,
                   imageTo2DArray(request.currentData,
                                  width - request.currentData.width, "current"))

\* Gaps were injected before a real row of the previous image and after a
\* real row of the current one.
C20_Witness ==
  /\ wpc = "injected"
  /\ Len(previousImageData) >= 3
  /\ IsGapRow(previousImageData[1])
  /\ ~IsGapRow(previousImageData[2])
  /\ \E n \in 2..Len(currentImageData) : IsGapRow(currentImageData[n])

====
